---- MODULE Spec2Model ----
(***************************************************************************)
(* Real-time layer of the messaging backend (src/index.js): the socket.io  *)
(* authentication middleware, the connection handler with its              *)
(* connectedUsers map and room joins, and the send_message, typing,        *)
(* read_message and disconnect handlers, over the Message / Chat / User    *)
(* collections.  Every await of a handler is a point where the handler is  *)
(* suspended: the storage call it waits for completes in a later step and  *)
(* either resolves or rejects.                                             *)
(* The chat creation routes (src/routes/users.js) are modelled as far as   *)
(* they change Chat.participants.                                          *)
(***************************************************************************)
EXTENDS Integers, Sequences, FiniteSets, TLC

\* u3 has an account and uses the REST routes, but opens no connection
Users == {"u1", "u2", "u3"}
Conns == {"c1", "c2", "c3"}
\* ch1 is the direct chat of u1 and u2, ch2 a group of u1 alone; ch3 and ch4
\* are the ids of chats that are yet to be created
Chats == {"ch1", "ch2", "ch3", "ch4"}
None == "none"

\* bound: number of send_message events accepted by the model
MaxSends == 1
\* bound: number of clock ticks
MaxClock == 2
\* bound: number of read_message events accepted by the model
MaxReads == 1
\* bound: number of send_message and read_message events whose storage
\* calls may fail
MaxEvents == 2
\* bound: number of POST /api/chats requests in flight
MaxRequests == 2
\* bound: number of send_message events of a burst
MaxBurst == 2

VARIABLES
    pc,             \* position of each connection in its lifecycle
    token,          \* socket.handshake.auth.token of each connection
    userId,         \* socket.userId
    connectedUsers, \* the Map userId -> socket.id
    rooms,          \* socket.io adapter: rooms each socket id has joined
    status,         \* User.status
    lastSeen,       \* User.lastSeen (0: never written)
    clock,          \* wall clock read by new Date()
    closeTime,      \* the new Date() taken by each disconnect handler
    participants,   \* Chat.participants, an array (empty: no such chat)
    isGroup,        \* Chat.isGroup
    lastMessage,    \* Chat.lastMessage (0: unset)
    messages,       \* Message collection, in order of insertion
    tasks,          \* suspended send_message / read_message handlers
    nextId,         \* number of Message ids allocated so far
    reads,          \* number of read_message events handled so far
    requests,       \* suspended POST /api/chats requests
    out,            \* events emitted by the last step
    strictQuery     \* mongoose strictQuery setting of the build

conn_vars == <<pc, token, userId, connectedUsers, rooms>>
user_vars == <<status, lastSeen, clock, closeTime>>
chat_vars == <<participants, isGroup, lastMessage, messages>>
task_vars == <<tasks, nextId, reads, requests>>
vars == <<conn_vars, user_vars, chat_vars, task_vars, out, strictQuery>>

-----------------------------------------------------------------------------
(* Handshake tokens and jwt.verify *)

JWT_SECRET == "secret"

\* a token: whether one is present, whether it parses, the key it is signed
\* with, whether it has expired, and the userId of its payload
Token(present, wellFormed, key, expired, u) == <<present, wellFormed, key, expired, u>>
Present(tok) == tok[1]
WellFormed(tok) == tok[2]
SigningKey(tok) == tok[3]
Expired(tok) == tok[4]
PayloadUserId(tok) == tok[5]
GoodToken(u) == Token(TRUE, TRUE, JWT_SECRET, FALSE, u)
MissingToken == Token(FALSE, FALSE, None, FALSE, None)
MalformedToken == Token(TRUE, FALSE, None, FALSE, None)
ExpiredToken == Token(TRUE, TRUE, JWT_SECRET, TRUE, "u1")
ForgedToken == Token(TRUE, TRUE, "other", FALSE, "u2")

BadTokens == {MissingToken, MalformedToken, ExpiredToken, ForgedToken}

\* the tokens each connection may present: u1 has two devices (c1, c2), u2 one
HandshakeTokens(c) ==
    CASE c = "c1" -> {GoodToken("u1"), MissingToken, MalformedToken}
      [] c = "c2" -> {GoodToken("u1"), ExpiredToken}
      [] OTHER    -> {GoodToken("u2"), ForgedToken}

\* a verify that does not check the expiry of the token
JwtVerifyNoExpiry(tok) ==
    IF WellFormed(tok) /\ SigningKey(tok) = JWT_SECRET
    THEN PayloadUserId(tok)
    ELSE "throws"

\* jwt.verify(token, JWT_SECRET): the decoded userId, or "throws"
JwtVerify(tok) ==
    IF WellFormed(tok) /\ SigningKey(tok) = JWT_SECRET /\ ~Expired(tok)
    THEN PayloadUserId(tok)
    ELSE "throws"

-----------------------------------------------------------------------------
(* Chat ids as the client sends them, ObjectId casting, room names *)

\* "CH1" is the upper-case hex spelling of ch1's id; "bad" is no ObjectId
ChatIdInputs == {"ch1", "ch2", "CH1", "bad"}

\* mongoose casts the chatId of a document or filter to an ObjectId
CastObjectId(s) ==
    CASE s = "ch1" -> "ch1"
      [] s = "CH1" -> "ch1"
      [] s = "ch2" -> "ch2"
      [] s = "ch3" -> "ch3"
      [] s = "ch4" -> "ch4"
      [] OTHER     -> "CastError"

\* chat._id.toString(): the lower-case hex spelling
RoomName(ch) == ch

\* a send_message payload that also carries a sender and a read field
SpoofedPayload(chatId, content, sender, read) ==
    [chatId |-> chatId, content |-> content, sender |-> sender, read |-> read]

\* the payload {content, chatId} of the client
Payload(chatId, content) == SpoofedPayload(chatId, content, None, FALSE)

\* the send_message payloads each connection may send (c3's user is no
\* participant of ch2)
Payloads(c) ==
    CASE c = "c1" -> {Payload("ch1", "hi"), Payload("ch1", ""),
                      SpoofedPayload("ch1", "hi", "u2", TRUE)}
      [] c = "c2" -> {Payload("ch2", "hi"), Payload("CH1", "hi")}
      [] OTHER    -> {Payload("ch1", "hi"), Payload("ch2", "hi"), Payload("bad", "hi")}

-----------------------------------------------------------------------------
(* socket.io: connected sockets and broadcast targets *)

\* sockets of the namespace: the transport is open and "connection" has fired
Connected(c) == pc[c] \in {"joining", "live"}
Sockets == {c \in Conns : Connected(c)}

\* io.emit(...): every connected socket
IoEmitTargets == Sockets

\* io.to(room).emit(...): every connected socket that joined the room
IoToTargets(room) == {c \in Sockets : room \in rooms[c]}

\* a broadcast that does not leave out the socket itself
SocketToTargetsAll(c, room) == {d \in Sockets : room \in rooms[d]}

\* socket.to(room).emit(...): as io.to(room), except the socket itself
SocketToTargets(c, room) == {d \in Sockets : room \in rooms[d]} \ {c}

\* socket.emit(...): the socket itself, if it is still connected
SocketEmitTargets(c) == {c} \cap Sockets

\* an emitted event: its name, the connections it reaches and its payload
Ev(ev, to, from, room, u, st, doc, isTyping) ==
    [ev |-> ev, to |-> to, from |-> from, room |-> room, userId |-> u,
     status |-> st, msg |-> doc.id, sender |-> doc.sender, read |-> doc.read,
     content |-> doc.content, isTyping |-> isTyping]

\* no document: the null of findById, and the payload of events without one
NullDoc == [id |-> 0, sender |-> None, chatId |-> None, content |-> "", read |-> FALSE]

UserStatusEv(to, u, st) == Ev("user_status", to, None, None, u, st, NullDoc, FALSE)
ErrorEv(c) == Ev("error", SocketEmitTargets(c), c, None, None, None, NullDoc, FALSE)
ConnectErrorEv(c) == Ev("connect_error", {c}, c, None, None, None, NullDoc, FALSE)

-----------------------------------------------------------------------------
(* Registry queries of the spec, read off connectedUsers *)

isOnline(u) == connectedUsers[u] # None
connectionsFor(u) == IF connectedUsers[u] = None THEN {} ELSE {connectedUsers[u]}

-----------------------------------------------------------------------------
Init ==
    /\ pc = [c \in Conns |-> "new"]
    /\ token = [c \in Conns |-> MissingToken]
    /\ userId = [c \in Conns |-> None]
    /\ connectedUsers = [u \in Users |-> None]
    /\ rooms = [c \in Conns |-> {}]
    /\ status = [u \in Users |-> "offline"]
    /\ lastSeen = [u \in Users |-> 0]
    /\ clock = 1
    /\ closeTime = [c \in Conns |-> 0]
    /\ participants = [ch \in Chats |->
                          CASE ch = "ch1" -> <<"u1", "u2">>
                            [] ch = "ch2" -> <<"u1">>
                            [] OTHER      -> <<>>]
    /\ isGroup = [ch \in Chats |-> ch = "ch2"]
    /\ requests = <<>>
    /\ lastMessage = [ch \in Chats |-> 0]
    /\ messages = <<>>
    /\ tasks = {}
    /\ nextId = 0
    /\ reads = 0
    /\ out = {}
    /\ strictQuery \in BOOLEAN

-----------------------------------------------------------------------------
(* Authentication middleware, io.use (index.js 63-82) *)

\* the client opens a connection; the middleware runs up to its first await
Connect(c, tok) ==
    /\ pc[c] = "new"
    /\ tok \in HandshakeTokens(c)
    /\ token' = [token EXCEPT ![c] = tok]
    /\ IF ~Present(tok) \/ JwtVerify(tok) = "throws"
       THEN /\ pc' = [pc EXCEPT ![c] = "rejected"]
            /\ userId' = userId
            /\ out' = {ConnectErrorEv(c)}
       ELSE /\ pc' = [pc EXCEPT ![c] = "auth"]
            /\ userId' = [userId EXCEPT ![c] = JwtVerify(tok)]
            /\ out' = {}
    /\ UNCHANGED <<connectedUsers, rooms, user_vars, chat_vars, task_vars, strictQuery>>

\* the transport closes while the middleware awaits the status write
CloseDuringAuth(c) ==
    /\ pc[c] = "auth"
    /\ pc' = [pc EXCEPT ![c] = "authClosed"]
    /\ out' = {}
    /\ UNCHANGED <<token, userId, connectedUsers, rooms, user_vars, chat_vars, task_vars, strictQuery>>

\* connectedUsers.set(socket.userId, socket.id)
Register(map, u, c) == [map EXCEPT ![u] = c]

\* connectedUsers.delete(socket.userId)
Unregister(map, u, c) == [map EXCEPT ![u] = None]

\* User.findByIdAndUpdate(userId, {status: "online"}) settles; on success
\* next() runs and, if the transport is still open, the connection handler
\* runs up to its first await (index.js 88-101)
AuthDone(c, ok) ==
    /\ pc[c] \in {"auth", "authClosed"}
    /\ LET u == userId[c] IN
       IF ok
       THEN /\ status' = [status EXCEPT ![u] = "online"]
            /\ IF pc[c] = "auth"
               THEN /\ pc' = [pc EXCEPT ![c] = "joining"]
                    /\ connectedUsers' = Register(connectedUsers, u, c)
                    /\ out' = {UserStatusEv(IoEmitTargets', u, "online")}
               ELSE /\ pc' = [pc EXCEPT ![c] = "aborted"]
                    /\ connectedUsers' = connectedUsers
                    /\ out' = {}
       ELSE /\ status' = status
            /\ connectedUsers' = connectedUsers
            /\ IF pc[c] = "auth"
               THEN /\ pc' = [pc EXCEPT ![c] = "rejected"]
                    /\ out' = {ConnectErrorEv(c)}
               ELSE /\ pc' = [pc EXCEPT ![c] = "aborted"]
                    /\ out' = {}
    /\ UNCHANGED <<token, userId, rooms, lastSeen, clock, closeTime, chat_vars, task_vars, strictQuery>>

-----------------------------------------------------------------------------
(* Connection handler, io.on("connection") (index.js 88-108) *)

\* the users in the participants array of a chat
Members(ch) == {participants[ch][i] : i \in 1..Len(participants[ch])}

\* Chat.find({participants: userId})
UserChats(u) == {ch \in Chats : u \in Members(ch)}

\* the transport closes while the handler awaits Chat.find: no disconnect
\* listener is registered yet, so the event finds no handler
CloseDuringJoin(c) ==
    /\ pc[c] = "joining"
    /\ pc' = [pc EXCEPT ![c] = "joiningClosed"]
    /\ out' = {}
    /\ UNCHANGED <<token, userId, connectedUsers, rooms, user_vars, chat_vars, task_vars, strictQuery>>

\* a membership query whose failure ends the connection
JoinDoneFatal(c, ok) ==
    /\ pc[c] \in {"joining", "joiningClosed"}
    /\ rooms' = IF ok
                THEN [rooms EXCEPT ![c] = {RoomName(ch) : ch \in UserChats(userId[c])}]
                ELSE rooms
    /\ pc' = [pc EXCEPT ![c] = IF pc[c] = "joining" /\ ok THEN "live" ELSE "zombie"]
    /\ out' = IF ok THEN {} ELSE {ErrorEv(c)}
    /\ UNCHANGED <<token, userId, connectedUsers, user_vars, chat_vars, task_vars, strictQuery>>

\* Chat.find settles: the socket joins its rooms (or none, on failure) and
\* the event listeners are registered
JoinDone(c, ok) ==
    /\ pc[c] \in {"joining", "joiningClosed"}
    /\ rooms' = IF ok
                THEN [rooms EXCEPT ![c] = {RoomName(ch) : ch \in UserChats(userId[c])}]
                ELSE rooms
    /\ pc' = [pc EXCEPT ![c] = IF pc[c] = "joining" THEN "live" ELSE "zombie"]
    /\ out' = {}
    /\ UNCHANGED <<token, userId, connectedUsers, user_vars, chat_vars, task_vars, strictQuery>>

-----------------------------------------------------------------------------
(* Disconnect handler (index.js 166-184) *)

\* the transport of an established connection closes: the socket leaves its
\* rooms and the handler runs up to its await
Disconnect(c) ==
    /\ pc[c] = "live"
    /\ pc' = [pc EXCEPT ![c] = "closing"]
    /\ rooms' = [rooms EXCEPT ![c] = {}]
    /\ connectedUsers' = Unregister(connectedUsers, userId[c], c)
    /\ closeTime' = [closeTime EXCEPT ![c] = clock]
    /\ out' = {}
    /\ UNCHANGED <<token, userId, status, lastSeen, clock, chat_vars, task_vars, strictQuery>>

\* User.findByIdAndUpdate(userId, {status: "offline", lastSeen}) settles
DisconnectDone(c, ok) ==
    /\ pc[c] = "closing"
    /\ pc' = [pc EXCEPT ![c] = "closed"]
    /\ LET u == userId[c] IN
       IF ok
       THEN /\ status' = [status EXCEPT ![u] = "offline"]
            /\ lastSeen' = [lastSeen EXCEPT ![u] = closeTime[c]]
            /\ out' = {UserStatusEv(IoEmitTargets', u, "offline")}
       ELSE /\ status' = status
            /\ lastSeen' = lastSeen
            /\ out' = {}
    /\ UNCHANGED <<token, userId, connectedUsers, rooms, clock, closeTime, chat_vars, task_vars, strictQuery>>

-----------------------------------------------------------------------------
(* send_message handler (index.js 111-139) *)

SendTask(c, id, data) ==
    [kind |-> "send", conn |-> c, id |-> id, chatId |-> data.chatId,
     content |-> data.content, phase |-> "save"]

\* new Message({sender: socket.userId, content, chatId, read: false})
NewMessage(t) ==
    [id |-> t.id, sender |-> userId[t.conn], chatId |-> CastObjectId(t.chatId),
     content |-> t.content, read |-> FALSE]

\* messageSchema validation on save: content and chatId are required
Validates(t) == t.content # "" /\ CastObjectId(t.chatId) # "CastError"

Stored(id) == \E i \in 1..Len(messages) : messages[i].id = id

\* Message.findById(id): the stored document, or null
FindById(id) ==
    IF Stored(id)
    THEN messages[CHOOSE i \in 1..Len(messages) : messages[i].id = id]
    ELSE NullDoc

\* a catch block that reports the error to the room of the event
FailToRoom(t) ==
    /\ tasks' = tasks \ {t}
    /\ out' = {Ev("error", IoToTargets(t.chatId), t.conn, None, None, None, NullDoc, FALSE)}

\* the catch block: socket.emit("error", ...) and the handler ends
Fail(t) ==
    /\ tasks' = tasks \ {t}
    /\ out' = {ErrorEv(t.conn)}

\* the client emits send_message; the handler runs up to newMessage.save()
SendMessage(c, data) ==
    /\ pc[c] = "live"
    /\ nextId' = nextId + 1
    /\ tasks' = tasks \cup {SendTask(c, nextId', data)}
    /\ out' = {}
    /\ UNCHANGED <<conn_vars, user_vars, chat_vars, reads, requests, strictQuery>>

\* a save whose rejection is swallowed: the handler goes on
SaveDoneSwallows(t, ok) ==
    /\ t \in tasks /\ t.kind = "send" /\ t.phase = "save"
    /\ messages' = IF ok /\ Validates(t) THEN Append(messages, NewMessage(t)) ELSE messages
    /\ tasks' = (tasks \ {t}) \cup {[t EXCEPT !.phase = "update"]}
    /\ out' = {}
    /\ UNCHANGED <<conn_vars, user_vars, participants, isGroup, lastMessage, nextId, reads, requests, strictQuery>>

\* newMessage.save() settles
SaveDone(t, ok) ==
    /\ t \in tasks /\ t.kind = "send" /\ t.phase = "save"
    /\ IF ok /\ Validates(t)
       THEN /\ messages' = Append(messages, NewMessage(t))
            /\ tasks' = (tasks \ {t}) \cup {[t EXCEPT !.phase = "update"]}
            /\ out' = {}
       ELSE /\ messages' = messages
            /\ Fail(t)
    /\ UNCHANGED <<conn_vars, user_vars, participants, isGroup, lastMessage, nextId, reads, requests, strictQuery>>

\* Chat.findByIdAndUpdate(chatId, {lastMessage: newMessage._id}) settles
UpdateDone(t, ok) ==
    /\ t \in tasks /\ t.kind = "send" /\ t.phase = "update"
    /\ IF ok
       THEN /\ lastMessage' = [lastMessage EXCEPT ![CastObjectId(t.chatId)] = t.id]
            /\ tasks' = (tasks \ {t}) \cup {[t EXCEPT !.phase = "find"]}
            /\ out' = {}
       ELSE /\ lastMessage' = lastMessage
            /\ Fail(t)
    /\ UNCHANGED <<conn_vars, user_vars, participants, isGroup, messages, nextId, reads, requests, strictQuery>>

\* an emit through socket.to(chatId), which leaves out the sender's socket
NewMessageEvToOthers(t, doc) ==
    Ev("new_message", SocketToTargets(t.conn, t.chatId), t.conn, t.chatId,
       None, None, doc, FALSE)

\* io.to(chatId).emit("new_message", populatedMessage)
NewMessageEv(t, doc) ==
    Ev("new_message", IoToTargets(t.chatId), t.conn, t.chatId, None, None, doc, FALSE)

\* Message.findById(newMessage._id).populate(...).lean() settles
FindDone(t, ok) ==
    /\ t \in tasks /\ t.kind = "send" /\ t.phase = "find"
    /\ IF ok
       THEN /\ tasks' = tasks \ {t}
            /\ out' = {NewMessageEv(t, FindById(t.id))}
       ELSE Fail(t)
    /\ UNCHANGED <<conn_vars, user_vars, chat_vars, nextId, reads, requests, strictQuery>>

-----------------------------------------------------------------------------
(* typing handler (index.js 142-147) *)

TypingEv(c, data) ==
    Ev("typing", SocketToTargets(c, data.chatId), c, data.chatId, None, None,
       NullDoc, data.isTyping)

\* the typing payloads a connection may send
TypingInputs(c) ==
    {[chatId |-> "ch1", isTyping |-> TRUE], [chatId |-> "ch2", isTyping |-> FALSE]}

Typing(c, data) ==
    /\ pc[c] = "live"
    /\ out' = {TypingEv(c, data)}
    /\ UNCHANGED <<conn_vars, user_vars, chat_vars, task_vars, strictQuery>>

-----------------------------------------------------------------------------
(* read_message handler (index.js 150-163) *)

\* a suspended read_message handler; id numbers the read_message events
ReadTask(c, id, chatId) ==
    [kind |-> "read", conn |-> c, id |-> id, chatId |-> chatId,
     content |-> "", phase |-> "updateMany"]

\* the Message schema has no receiver path: no stored document carries one
Receiver(m) == None

\* the filter {chatId, receiver: socket.userId, read: false}; with
\* strictQuery the path that is not in the schema is stripped from it
ReadFilter(m, chat, u) ==
    /\ m.chatId = chat
    /\ ~m.read
    /\ strictQuery \/ Receiver(m) = u

\* Message.updateMany(filter, {read: true})
UpdateManyRead(msgs, chat, u) ==
    [i \in 1..Len(msgs) |->
        IF ReadFilter(msgs[i], chat, u) THEN [msgs[i] EXCEPT !.read = TRUE]
        ELSE msgs[i]]

MessagesReadEv(t) ==
    Ev("messages_read", SocketToTargets(t.conn, t.chatId), t.conn, t.chatId,
       userId[t.conn], None, NullDoc, FALSE)

\* the client emits read_message; the handler runs up to updateMany
ReadMessage(c, chatId) ==
    /\ pc[c] = "live"
    /\ reads' = reads + 1
    /\ tasks' = tasks \cup {ReadTask(c, reads', chatId)}
    /\ out' = {}
    /\ UNCHANGED <<conn_vars, user_vars, chat_vars, nextId, requests, strictQuery>>

\* Message.updateMany settles
ReadDone(t, ok) ==
    /\ t \in tasks /\ t.kind = "read"
    /\ IF ok /\ CastObjectId(t.chatId) # "CastError"
       THEN /\ messages' = UpdateManyRead(messages, CastObjectId(t.chatId), userId[t.conn])
            /\ tasks' = tasks \ {t}
            /\ out' = {MessagesReadEv(t)}
       ELSE /\ messages' = messages
            /\ Fail(t)
    /\ UNCHANGED <<conn_vars, user_vars, participants, isGroup, lastMessage, nextId, reads, requests, strictQuery>>

-----------------------------------------------------------------------------
(* Inbound events without a payload: data is undefined (index.js 113, 143, *)
(* 152) and the destructuring of it throws a TypeError                     *)

\* process.on("uncaughtException"): process.exit(1); the registry, the rooms
\* and the suspended handlers go with the process, every transport closes
\* and no disconnect handler gets to run
ProcessExit ==
    /\ pc' = [c \in Conns |-> "down"]
    /\ connectedUsers' = [u \in Users |-> None]
    /\ rooms' = [c \in Conns |-> {}]
    /\ tasks' = {}
    /\ requests' = <<>>
    /\ out' = {}

\* send_message without payload: the TypeError is thrown inside the try of
\* the async handler, the catch answers with an error event
SendMessageNoPayload(c) ==
    /\ pc[c] = "live"
    /\ out' = {ErrorEv(c)}
    /\ UNCHANGED <<conn_vars, user_vars, chat_vars, task_vars, strictQuery>>

\* read_message without payload: as send_message
ReadMessageNoPayload(c) ==
    /\ pc[c] = "live"
    /\ out' = {ErrorEv(c)}
    /\ UNCHANGED <<conn_vars, user_vars, chat_vars, task_vars, strictQuery>>

\* typing without payload: the handler is synchronous and has no try, the
\* TypeError leaves the listener uncaught and the process exits
TypingNoPayload(c) ==
    /\ pc[c] = "live"
    /\ ProcessExit
    /\ UNCHANGED <<token, userId, user_vars, chat_vars, nextId, reads, strictQuery>>

-----------------------------------------------------------------------------
(* Chat creation over REST (routes/users.js 97-189) *)

\* the node process, which serves the sockets and the REST routes alike, has
\* not exited (index.js 209-212)
ProcessUp == \A c \in Conns : pc[c] # "down"

\* ids of chats that do not exist yet
FreeChatIds == {ch \in Chats : participants[ch] = <<>>}

\* the _id of a new Chat: ObjectIds grow with time
ChatOrder == <<"ch1", "ch2", "ch3", "ch4">>
NewChatId ==
    ChatOrder[CHOOSE i \in 1..Len(ChatOrder) :
                 /\ ChatOrder[i] \in FreeChatIds
                 /\ \A j \in 1..(i - 1) : ChatOrder[j] \notin FreeChatIds]

\* Chat.findOne({isGroup: false, participants: {$all: [u, p], $size: 2}})
ExistingChat(u, p) ==
    {ch \in Chats : /\ ~isGroup[ch]
                    /\ {u, p} \subseteq Members(ch)
                    /\ Len(participants[ch]) = 2}

\* a POST /api/chats request that is suspended after its Chat.findOne
ChatRequest(u, p, existing) == <<u, p, existing>>

\* the (user, participantId) of the POST /api/chats requests; "ux" is the id
\* of no user
CreateChatInputs ==
    {<<"u1", "u2">>, <<"u1", "u3">>, <<"u3", "u3">>, <<"u1", "ux">>}

\* POST /api/chats by u with participantId p arrives: User.findById(p)
\* (404 if there is none), then Chat.findOne, on whose result the request
\* is suspended
CreateChat(u, p) ==
    /\ ProcessUp
    /\ requests' = IF p \notin Users
                   THEN requests
                   ELSE Append(requests, ChatRequest(u, p, ExistingChat(u, p) # {}))
    /\ out' = {}
    /\ UNCHANGED <<conn_vars, user_vars, chat_vars, tasks, nextId, reads, strictQuery>>

\* the request goes on: the chat that findOne found is returned, or
\* new Chat({participants: [u, p], isGroup: false}).save() settles
CreateChatSave(i, ok) ==
    /\ ProcessUp
    /\ i \in 1..Len(requests)
    /\ LET r == requests[i] IN
       IF r[3] \/ ~ok
       THEN UNCHANGED <<participants, isGroup>>
       ELSE /\ FreeChatIds # {}
            /\ participants' = [participants EXCEPT ![NewChatId] = <<r[1], r[2]>>]
            /\ isGroup' = [isGroup EXCEPT ![NewChatId] = FALSE]
    /\ requests' = [j \in 1..(Len(requests) - 1) |->
                       IF j < i THEN requests[j] ELSE requests[j + 1]]
    /\ out' = {}
    /\ UNCHANGED <<conn_vars, user_vars, lastMessage, messages, tasks, nextId, reads, strictQuery>>

\* the (user, participantIds) of the POST /api/chats/group requests
CreateGroupInputs ==
    {<<"u2", <<"u1">>>>, <<"u1", <<>>>>, <<"u3", <<"u1", "u3">>>>}

\* participantIds.push(req.userId) unless it is included
GroupParticipants(u, ids) ==
    IF \E i \in 1..Len(ids) : ids[i] = u THEN ids ELSE Append(ids, u)

\* a group creation that subscribes the live sockets of the participants
CreateGroupJoins(u, ids, ok) ==
    /\ ProcessUp
    /\ FreeChatIds # {}
    /\ IF ok
       THEN /\ participants' = [participants EXCEPT ![NewChatId] = GroupParticipants(u, ids)]
            /\ isGroup' = [isGroup EXCEPT ![NewChatId] = TRUE]
            /\ rooms' = [c \in Conns |->
                           IF Connected(c) /\ \E i \in 1..Len(GroupParticipants(u, ids)) :
                                                 GroupParticipants(u, ids)[i] = userId[c]
                           THEN rooms[c] \cup {RoomName(NewChatId)}
                           ELSE rooms[c]]
       ELSE UNCHANGED <<participants, isGroup, rooms>>
    /\ out' = {}
    /\ UNCHANGED <<pc, token, userId, connectedUsers, user_vars, lastMessage, messages, task_vars, strictQuery>>

\* POST /api/chats/group by u with participantIds ids: u is added to the
\* participants and new Chat({participants, isGroup: true}).save() settles
CreateGroup(u, ids, ok) ==
    /\ ProcessUp
    /\ FreeChatIds # {}
    /\ IF ok
       THEN /\ participants' = [participants EXCEPT ![NewChatId] = GroupParticipants(u, ids)]
            /\ isGroup' = [isGroup EXCEPT ![NewChatId] = TRUE]
       ELSE UNCHANGED <<participants, isGroup>>
    /\ out' = {}
    /\ UNCHANGED <<conn_vars, user_vars, lastMessage, messages, task_vars, strictQuery>>

-----------------------------------------------------------------------------
\* time passes
Tick ==
    /\ clock' = clock + 1
    /\ out' = {}
    /\ UNCHANGED <<conn_vars, status, lastSeen, closeTime, chat_vars, task_vars, strictQuery>>

-----------------------------------------------------------------------------
(* Specifications *)

\* connection lifecycle with every outcome of the handshake, of the storage
\* calls and of the moment the transport closes
NextPresence ==
    \/ \E c \in Conns : \E tok \in HandshakeTokens(c) : Connect(c, tok)
    \/ \E c \in Conns : CloseDuringAuth(c)
    \/ \E c \in Conns, ok \in BOOLEAN : AuthDone(c, ok)
    \/ \E c \in Conns : CloseDuringJoin(c)
    \/ \E c \in Conns, ok \in BOOLEAN : JoinDone(c, ok)
    \/ \E c \in Conns : Disconnect(c)
    \/ \E c \in Conns, ok \in BOOLEAN : DisconnectDone(c, ok)
    \/ clock < MaxClock /\ Tick

SpecPresence == Init /\ [][NextPresence]_vars

\* messages stored by earlier runs of the server
History ==
    <<[id |-> 1, sender |-> "u1", chatId |-> "ch1", content |-> "a", read |-> FALSE],
      [id |-> 2, sender |-> "u2", chatId |-> "ch1", content |-> "b", read |-> FALSE],
      [id |-> 3, sender |-> "u1", chatId |-> "ch2", content |-> "c", read |-> FALSE]>>

\* c1 (of u1) and c3 (of u2) are established, c2 (of u1) has yet to connect
InitChat ==
    /\ participants = [ch \in Chats |->
                          CASE ch = "ch1" -> <<"u1", "u2">>
                            [] ch = "ch2" -> <<"u1">>
                            [] OTHER      -> <<>>]
    /\ isGroup = [ch \in Chats |-> ch = "ch2"]
    /\ requests = <<>>
    /\ pc = [c \in Conns |-> IF c = "c2" THEN "new" ELSE "live"]
    /\ token = [c \in Conns |->
                  CASE c = "c1" -> GoodToken("u1")
                    [] c = "c2" -> MissingToken
                    [] OTHER    -> GoodToken("u2")]
    /\ userId = [c \in Conns |->
                  CASE c = "c1" -> "u1" [] c = "c2" -> None [] OTHER -> "u2"]
    /\ connectedUsers = [u \in Users |->
                            CASE u = "u1" -> "c1" [] u = "u2" -> "c3" [] OTHER -> None]
    /\ rooms = [c \in Conns |->
                  IF c = "c2" THEN {}
                  ELSE {RoomName(ch) : ch \in UserChats(userId[c])}]
    /\ status = [u \in Users |-> IF u = "u3" THEN "offline" ELSE "online"]
    /\ lastSeen = [u \in Users |-> 0]
    /\ clock = 1
    /\ closeTime = [c \in Conns |-> 0]
    /\ lastMessage = [ch \in Chats |->
                         CASE ch = "ch1" -> 2 [] ch = "ch2" -> 3 [] OTHER -> 0]
    /\ messages = History
    /\ tasks = {}
    /\ nextId = Len(History)
    /\ reads = 0
    /\ out = {}
    /\ strictQuery \in BOOLEAN

\* connections come and go while the event handlers run
NextComeAndGo ==
    \/ \E c \in Conns, u \in Users : Connect(c, GoodToken(u))
    \/ \E c \in Conns : AuthDone(c, TRUE)
    \/ \E c \in Conns : JoinDone(c, TRUE)
    \/ \E c \in Conns : Disconnect(c)
    \/ \E c \in Conns : DisconnectDone(c, TRUE)

\* send_message with every outcome of its storage calls
NextSend ==
    \/ \E c \in Conns : \E data \in Payloads(c) :
          nextId < Len(History) + MaxSends /\ SendMessage(c, data)
    \/ \E t \in tasks, ok \in BOOLEAN : SaveDone(t, ok)
    \/ \E t \in tasks, ok \in BOOLEAN : UpdateDone(t, ok)
    \/ \E t \in tasks, ok \in BOOLEAN : FindDone(t, ok)

\* typing, and read_message with every outcome of its storage call
NextRead ==
    \/ \E c \in Conns : \E data \in TypingInputs(c) : Typing(c, data)
    \/ \E c \in Conns, chatId \in ChatIdInputs :
          reads < MaxReads /\ ReadMessage(c, chatId)
    \/ \E t \in tasks, ok \in BOOLEAN : ReadDone(t, ok)

\* inbound events that carry no payload
NextMalformed ==
    \/ \E c \in Conns : SendMessageNoPayload(c)
    \/ \E c \in Conns : ReadMessageNoPayload(c)
    \/ \E c \in Conns : TypingNoPayload(c)

\* chats are created while connections are live
NextRooms ==
    \/ \E in \in CreateChatInputs :
          Len(requests) < MaxRequests /\ CreateChat(in[1], in[2])
    \/ \E i \in 1..Len(requests), ok \in BOOLEAN : CreateChatSave(i, ok)
    \/ \E in \in CreateGroupInputs, ok \in BOOLEAN : CreateGroup(in[1], in[2], ok)

\* the send_message payloads of a burst: all for the room ch1
BurstPayloads(c) ==
    CASE c = "c1" -> {Payload("ch1", "hi"), Payload("ch1", "yo")}
      [] c = "c3" -> {Payload("ch1", "ok")}
      [] OTHER    -> {}

\* a burst of send_message events whose storage calls all succeed
NextBurst ==
    \/ \E c \in Conns : \E data \in BurstPayloads(c) :
          nextId < Len(History) + MaxBurst /\ SendMessage(c, data)
    \/ \E t \in tasks : SaveDone(t, TRUE)
    \/ \E t \in tasks : UpdateDone(t, TRUE)
    \/ \E t \in tasks : FindDone(t, TRUE)

\* the storage calls of the send_message handlers settle
FairBurst ==
    /\ WF_vars(\E t \in tasks : SaveDone(t, TRUE))
    /\ WF_vars(\E t \in tasks : UpdateDone(t, TRUE))
    /\ WF_vars(\E t \in tasks : FindDone(t, TRUE))

SpecBurst == InitChat /\ [][NextBurst]_vars /\ FairBurst

\* established connections close
NextLeave ==
    \/ \E c \in Conns : Disconnect(c)
    \/ \E c \in Conns : DisconnectDone(c, TRUE)

\* send_message and read_message with every outcome of their storage calls
NextFailures ==
    \/ \E c \in Conns : \E data \in Payloads(c) :
          (nextId - Len(History)) + reads < MaxEvents /\ SendMessage(c, data)
    \/ \E t \in tasks, ok \in BOOLEAN : SaveDone(t, ok)
    \/ \E t \in tasks, ok \in BOOLEAN : UpdateDone(t, ok)
    \/ \E t \in tasks, ok \in BOOLEAN : FindDone(t, ok)
    \/ \E c \in Conns, chatId \in ChatIdInputs :
          (nextId - Len(History)) + reads < MaxEvents /\ ReadMessage(c, chatId)
    \/ \E t \in tasks, ok \in BOOLEAN : ReadDone(t, ok)

SpecFailures == InitChat /\ [][NextLeave \/ NextFailures]_vars

\* connections come and go from the start; every storage call succeeds and
\* no transport closes while its handshake or room join is pending
SpecReconnect == Init /\ [][NextComeAndGo]_vars

SpecSend == InitChat /\ [][NextComeAndGo \/ NextSend]_vars
SpecRooms == InitChat /\ [][NextComeAndGo \/ NextRooms]_vars
SpecRead == InitChat /\ [][NextComeAndGo \/ NextRead]_vars
SpecChat == InitChat /\ [][NextComeAndGo \/ NextSend \/ NextRead]_vars
SpecMalformed == InitChat /\ [][NextComeAndGo \/ NextRead \/ NextMalformed]_vars

\* the storage calls of the lifecycle settle, whatever their outcome
FairStorage ==
    \A c \in Conns :
        /\ WF_vars(\E ok \in BOOLEAN : AuthDone(c, ok))
        /\ WF_vars(\E ok \in BOOLEAN : JoinDone(c, ok))
        /\ WF_vars(\E ok \in BOOLEAN : DisconnectDone(c, ok))

FairSpecPresence == SpecPresence /\ FairStorage

Next ==
    \/ NextPresence \/ NextSend \/ NextRead \/ NextMalformed \/ NextRooms
    \/ NextBurst \/ NextLeave \/ NextFailures

Spec == Init /\ [][Next]_vars

-----------------------------------------------------------------------------
(* Properties *)

\* connections on which register ran and unregister did not
Registered(c) == pc[c] \in {"joining", "joiningClosed", "live", "zombie"}
ConnsOf(u) == {c \in Conns : userId[c] = u}

\* C1: a user is online (has a registry entry) as long as one of the user's
\* connections is registered and live; the disconnect of one of several
\* connections of the user does not end it
C1_OnlineWhileAnyConnectionLive ==
    \A c \in Conns : Connected(c) => isOnline(userId[c])

\* C2: the handler that fans a message out delivers new_message to exactly
\* the connections subscribed to the room of the payload (the sender's own
\* connection and the sender's other devices among them), once each, and
\* exactly one Message record with the message's id is stored
C2_FanOutToAllSubscribers ==
    \A e \in out : e.ev = "new_message" =>
        /\ e.to = {c \in Conns : Connected(c) /\ e.room \in rooms[c]}
        /\ Cardinality({i \in 1..Len(messages) : messages[i].id = e.msg}) = 1
        /\ Cardinality({f \in out : f.ev = "new_message"}) = 1

C2_Witness ==
    \E e \in out :
        /\ e.ev = "new_message"
        /\ e.from = "c1"
        /\ e.to = {"c1", "c2", "c3"}
        /\ e.msg > Len(History)

\* C3: a typing or messages_read event is not delivered to the connection
\* that originated it and is delivered to every other connection subscribed
\* to the room when it is emitted, other connections of the same user included
C3_RoomEventSkipsOriginator ==
    \A e \in out : e.ev \in {"typing", "messages_read"} =>
        /\ e.from \notin e.to
        /\ e.to = {d \in Conns \ {e.from} : Connected(d) /\ e.room \in rooms[d]}

C3_Witness ==
    \E e \in out :
        /\ e.ev = "messages_read"
        /\ e.from = "c1"
        /\ e.to = {"c2", "c3"}

\* what read_message is specified to do to the collection: mark the unread
\* messages of the chat that the reader did not author
MarkReadForReader(msgs, chat, u) ==
    [i \in 1..Len(msgs) |->
        IF msgs[i].chatId = chat /\ ~msgs[i].read /\ msgs[i].sender # u
        THEN [msgs[i] EXCEPT !.read = TRUE]
        ELSE msgs[i]]

\* GET /api/chats: unread count of a chat for a user
UnreadCount(chat, u) ==
    Cardinality({i \in 1..Len(messages) :
                    /\ messages[i].chatId = chat
                    /\ messages[i].sender # u
                    /\ ~messages[i].read})

\* C4: a read_message that succeeds marks exactly the unread messages of the
\* chat authored by someone other than the reader, whose unread count for
\* the chat becomes zero; every other message is unchanged
C4_ReadMarksOthersUnread ==
    [][\A t \in tasks :
          (/\ t.kind = "read"
           /\ t \notin tasks'
           /\ \E e \in out' : e.ev = "messages_read" /\ e.from = t.conn)
          => /\ messages' = MarkReadForReader(messages, CastObjectId(t.chatId), userId[t.conn])
             /\ UnreadCount(CastObjectId(t.chatId), userId[t.conn])' = 0]_vars

\* C5: when the disconnect handler of the only connection a user ever had
\* has finished, whatever the outcome of its status write, the stored status
\* is offline, lastSeen is no earlier than the disconnect, and the step
\* broadcast exactly one user_status offline event to all connections
C5_LastDisconnectGoesOffline ==
    [][\A c \in Conns :
          (/\ pc[c] = "closing"
           /\ pc'[c] = "closed"
           /\ ConnsOf(userId[c]) = {c})
          => /\ status'[userId[c]] = "offline"
             /\ lastSeen'[userId[c]] >= closeTime[c]
             /\ out' = {UserStatusEv({d \in Conns : Connected(d)}, userId[c], "offline")}]_vars

\* C6: a handshake with a missing, malformed, expired or badly signed token
\* is answered with an authentication error and changes neither the
\* registry, the rooms, the stored status nor lastSeen, broadcasts nothing,
\* and the connection stays rejected and without state ever after
C6_BadTokenCreatesNoState ==
    [][\A c \in Conns :
          /\ (pc[c] = "new" /\ pc'[c] # "new" /\ token'[c] \in BadTokens)
             => /\ pc'[c] = "rejected"
                /\ out' = {ConnectErrorEv(c)}
                /\ UNCHANGED <<userId, connectedUsers, rooms, status, lastSeen>>
          /\ (pc[c] = "rejected" /\ token[c] \in BadTokens)
             => /\ pc'[c] = "rejected"
                /\ userId'[c] = None
                /\ rooms'[c] = {}
                /\ \A u \in Users : connectedUsers'[u] # c
                /\ \A e \in out' : c \notin e.to]_vars

C6_Witness ==
    /\ pc["c1"] = "rejected" /\ token["c1"] \in {MissingToken, MalformedToken}
    /\ pc["c2"] = "rejected" /\ token["c2"] = ExpiredToken
    /\ pc["c3"] = "rejected" /\ token["c3"] = ForgedToken

\* an inbound send_message, read_message or typing of c for a room c has not
\* joined is handled in this step
InboundUnsubscribed(c) ==
    \/ \E t \in tasks' \ tasks : t.conn = c /\ t.chatId \notin rooms[c]
    \/ \E e \in out' : e.ev = "typing" /\ e.from = c /\ e.room \notin rooms[c]

\* C7: an inbound event for a room its connection is not subscribed to is
\* dropped with an error event to the originator alone: no handler is
\* started, no message created or marked and no room event emitted
C7_UnsubscribedEventDropped ==
    [][\A c \in Conns :
          InboundUnsubscribed(c)
          => /\ out' = {ErrorEv(c)}
             /\ UNCHANGED <<messages, tasks>>]_vars

\* C8: a new_message is fanned out only by a handler whose Message record
\* was stored before the step that emits it, with the content that is
\* delivered; a handler that ends at its save or at its lastMessage update
\* fans out nothing
C8_FanOutOnlyOfStoredMessage ==
    [][/\ \A e \in out' : e.ev = "new_message" =>
            /\ \E i \in 1..Len(messages) :
                  messages[i].id = e.msg /\ messages[i].content = e.content
            /\ \E t \in tasks : t.kind = "send" /\ t.id = e.msg /\ t.phase = "find"
       /\ \A t \in tasks :
            (/\ t.kind = "send"
             /\ t.phase \in {"save", "update"}
             /\ \A t2 \in tasks' : t2.kind = "send" => t2.id # t.id)
            => \A e \in out' : e.ev # "new_message"]_vars

C8_Witness ==
    \E e \in out :
        /\ e.ev = "new_message"
        /\ e.to # {}
        /\ Stored(e.msg)
        /\ e.msg > Len(History)

\* C9: connectionsFor(u) is the set of u's connections that were registered
\* and not yet unregistered
C9_ConnectionsForIsRegisteredSet ==
    \A u \in Users : connectionsFor(u) = {c \in ConnsOf(u) : Registered(c)}

\* C10: user_status online is broadcast when the first connection of the
\* user is registered, and user_status offline (with the offline write) only
\* when no connection of the user is live any more
C10_PresenceOnlyOnUserTransitions ==
    \A e \in out : e.ev = "user_status" =>
        /\ e.status = "online"
              => Cardinality({c \in ConnsOf(e.userId) : Connected(c)}) = 1
        /\ e.status = "offline"
              => {c \in ConnsOf(e.userId) : Connected(c)} = {}

\* C11: when the status write of the middleware settles for a connection
\* with a valid token whose transport is open, whatever the outcome of the
\* write, the connection is accepted: its handler runs and registers it
C11_OnlineWriteFailureStillAccepts ==
    [][\A c \in Conns :
          (pc[c] = "auth" /\ pc'[c] \notin {"auth", "authClosed"})
          => /\ pc'[c] = "joining"
             /\ connectedUsers'[userId[c]] = c]_vars

\* C12: an inbound send_message, typing or read_message without payload is
\* answered with an error event to its originator and changes nothing else:
\* no connection is closed, the process keeps running, and the registry and
\* the rooms of all connections are as before
C12_MalformedEventIsNoOp ==
    [][\A c \in Conns :
          (SendMessageNoPayload(c) \/ TypingNoPayload(c) \/ ReadMessageNoPayload(c))
          => /\ out' = {ErrorEv(c)}
             /\ UNCHANGED <<pc, connectedUsers, rooms, messages, tasks>>]_vars

\* C13: a registered connection whose transport has closed, be it while
\* Chat.find was pending or later, is eventually cleaned up: its disconnect
\* handler runs to its end
C13_ClosedConnectionCleanedUp ==
    \A c \in Conns :
        (pc[c] \in {"joiningClosed", "closing"}) ~> (pc[c] = "closed")

\* C14: a failed membership query leaves the connection established with no
\* room and emits nothing; the registry and the stored status stay as the
\* handshake left them (for the only connection of a user: registered and
\* online), and the disconnect of such a connection is handled as any other
C14_JoinFailureDegrades ==
    [][\A c \in Conns :
          /\ (pc[c] = "joining" /\ JoinDone(c, FALSE))
             => /\ pc'[c] = "live"
                /\ rooms'[c] = {}
                /\ out' = {}
                /\ UNCHANGED <<connectedUsers, status>>
                /\ ConnsOf(userId[c]) = {c}
                      => connectedUsers'[userId[c]] = c /\ status'[userId[c]] = "online"
          /\ (pc[c] = "live" /\ rooms[c] = {} /\ pc'[c] # "live")
             => /\ pc'[c] = "closing"
                /\ connectedUsers'[userId[c]] = None]_vars

C14_Witness ==
    /\ pc["c3"] = "closed"
    /\ pc["c1"] = "live" /\ rooms["c1"] = {} /\ connectedUsers["u1"] = "c1"
    /\ pc["c2"] = "new"
    /\ status["u1"] = "online"

\* C15: when a storage call of a send_message or read_message handler
\* rejects, the step emits exactly one event, an error that reaches the
\* originating connection (if its transport is still open) and no other;
\* the handler ends there, so no room event follows for the inbound event,
\* and the connections, the registry and the rooms are unchanged
C15_StorageFailureErrorToOriginatorOnly ==
    [][\A t \in tasks :
          (SaveDone(t, FALSE) \/ UpdateDone(t, FALSE) \/ FindDone(t, FALSE) \/ ReadDone(t, FALSE))
          => /\ Cardinality(out') = 1
             /\ \A e \in out' :
                   /\ e.ev = "error"
                   /\ e.to = IF Connected(t.conn) THEN {t.conn} ELSE {}
             /\ \A t2 \in tasks' : t2.kind = t.kind => t2.id # t.id
             /\ UNCHANGED <<pc, connectedUsers, rooms>>]_vars

C15_Witness ==
    /\ \E e \in out : e.ev = "error" /\ e.to = {"c1"}
    /\ Cardinality(out) = 1
    /\ Len(messages) = Len(History) + 1
    /\ lastMessage["ch1"] = 2
    /\ tasks = {}
    /\ pc["c3"] = "live" /\ "ch1" \in rooms["c3"]

\* C16: a connection whose membership query succeeds joins exactly the
\* rooms of the chats its user is a participant of when the query settles,
\* and as long as it is live its rooms stay the same, also when a chat that
\* includes its user is created
C16_SubscriptionsFixedAtEstablishment ==
    [][\A c \in Conns :
          /\ (pc[c] = "joining" /\ pc'[c] = "live")
             => rooms'[c] = {RoomName(ch) : ch \in {x \in Chats : userId[c] \in Members(x)}}
          /\ (pc[c] = "live" /\ pc'[c] = "live")
             => rooms'[c] = rooms[c]]_vars

C16_Witness ==
    /\ pc["c1"] = "live" /\ rooms["c1"] = {"ch1", "ch2"}
    /\ "u1" \in Members("ch3")
    /\ pc["c2"] = "live" /\ rooms["c2"] = {"ch1", "ch2", "ch3"}

\* C17: a Message is stored with read = false and with the user of the
\* connection that sent it as its sender, and the new_message that is fanned
\* out carries read = false, that sender and the content of the payload
C17_SenderAndReadSetByServer ==
    [][/\ \A i \in (Len(messages) + 1)..Len(messages') :
             /\ messages'[i].read = FALSE
             /\ \E t \in tasks : /\ t.kind = "send"
                                 /\ t.id = messages'[i].id
                                 /\ messages'[i].sender = userId[t.conn]
                                 /\ messages'[i].content = t.content
       /\ \A e \in out' : e.ev = "new_message" =>
             /\ e.read = FALSE
             /\ e.sender = userId[e.from]
             /\ \E t \in tasks : t.kind = "send" /\ t.id = e.msg /\ e.content = t.content]_vars

\* ids of the messages of a burst, in the order in which their send_message
\* events entered the handler
BurstIds == (Len(History) + 1)..(Len(History) + MaxBurst)

\* the new_message of message id is delivered to subscribers of the room
DeliveredIn(id, room) ==
    \E e \in out : e.ev = "new_message" /\ e.msg = id /\ e.room = room /\ e.to # {}

\* C18: once the new_message of a message has been delivered in a room, the
\* new_message of no message whose send_message entered earlier is delivered
\* in that room any more
C18_FanOutInArrivalOrder ==
    \A k \in BurstIds, j \in BurstIds :
        k < j => [](DeliveredIn(j, "ch1") => [](~DeliveredIn(k, "ch1")))

MaxOf(S) == CHOOSE x \in S : \A y \in S : y <= x

\* id of the Message of the chat that was stored last (0: none)
LastPersisted(ch) ==
    LET idx == {i \in 1..Len(messages) : messages[i].chatId = ch}
    IN  IF idx = {} THEN 0 ELSE messages[MaxOf(idx)].id

\* C20: when no send_message handler is suspended, the lastMessage of a
\* chat, if set, is the id of the Message of the chat that was stored last
C20_LastMessageIsMostRecent ==
    tasks = {} =>
        \A ch \in Chats : lastMessage[ch] # 0 => lastMessage[ch] = LastPersisted(ch)

\* no storage call of the connection lifecycle is pending
Quiescent == \A c \in Conns : pc[c] \notin {"auth", "authClosed", "joining", "joiningClosed", "closing"}

\* the user has a live connection that the registry holds
HasLiveRegistered(u) ==
    \E c \in ConnsOf(u) : pc[c] = "live" /\ connectedUsers[u] = c

\* C19: when no storage call is pending, the stored status of a user is
\* online exactly if the user has a live registered connection, and so is
\* the status of a user_status event that was just broadcast for the user
C19_StatusMatchesRegistryWhenQuiescent ==
    Quiescent =>
        /\ \A u \in Users : (status[u] = "online") <=> HasLiveRegistered(u)
        /\ \A e \in out : e.ev = "user_status" =>
              ((e.status = "online") <=> HasLiveRegistered(e.userId))

====
